---- MODULE Spec2Model ----
(***************************************************************************)
(* Model of siml's AbstractEquivariantGNN block                            *)
(* (siml/networks/abstract_equivariant_gnn.py): construction of a block    *)
(* from a BlockSetting, the lazy first-call validation of the tensor-rank, *)
(* bias and activation rules, and the sequence of steps of a forward call. *)
(*                                                                         *)
(* Tensors are abstracted to their tensor rank (len(shape) - 2), support   *)
(* sets to their length, linear maps to the fact that they are applied.    *)
(*                                                                         *)
(* Beside the block: the segment reductions and atanh of                   *)
(* siml/networks/activations.py on small integer-valued fields, and the    *)
(* layer-count check of BlockSetting (siml/setting.py).                    *)
(***************************************************************************)
EXTENDS Integers, Sequences, FiniteSets, TLC

\* ---------------------------------------------------------------- bounds
MaxPropagations == 2      \* longest propagation list drawn
MaxRank == 2              \* largest tensor rank of a forward input
MaxRows == 3              \* longest grouped axis of a field drawn
MaxElements == 2          \* most elements of a tensor handed to atanh
MaxHiddenLayers == 2      \* largest hidden_layers / layer count of a BlockSetting drawn

\* ------------------------------------------------------------ vocabulary
PropagationNames == {"convolution", "contraction", "tensor_product", "rotation"}

UnknownName == "unknown"

ActivationNames == {"identity", "tanh"}

Missing == <<"missing">>  \* optional has no 'propagations' key

RECURSIVE Pow(_, _)
Pow(b, e) == IF e = 0 THEN 1 ELSE b * Pow(b, e - 1)

RECURSIVE SeqsUpTo(_, _)
SeqsUpTo(S, n) ==
  IF n = 0 THEN {<<>>}
  ELSE LET shorter == SeqsUpTo(S, n - 1)
       IN  shorter \cup {Append(s, x) : s \in shorter, x \in S}

RECURSIVE CountOf(_, _)
CountOf(name, s) ==
  IF s = <<>> THEN 0
  ELSE (IF Head(s) = name THEN 1 ELSE 0) + CountOf(name, Tail(s))

\* ------------------------------------------------------------- variables
VARIABLES
  status,           \* "unconstructed", "built" or "failed" (__init__ raised)
  init_error,       \* the error __init__ raised, "none" otherwise
  block_setting,    \* the BlockSetting the block was constructed from
  block,            \* the attributes __init__ sets on the block
  is_first,         \* self.is_first
  x_tensor_rank,    \* self.x_tensor_rank: <<>> while unset, <<r>> once set
  last,             \* the latest forward call: its inputs, steps and outcome
  injected,         \* the latest direct call of _add_neumann
  calls,            \* forward calls in progress, one per calling thread
  pooling,          \* a call of max_pool / mean / min: its inputs and outcome
  atanh_call,       \* a call of atanh: the caller's tensor and the outcome
  setting           \* a BlockSetting under construction and its outcome

block_vars == <<status, init_error, block_setting, block, is_first,
                x_tensor_rank, last, injected, calls>>

function_vars == <<pooling, atanh_call, setting>>

vars == <<block_vars, function_vars>>


\* ------------------------------------------------- block settings drawn
\* A BlockSetting as the block reads it.  n_layer is len(nodes) - 1,
\* activation is activations[-1], the opt_* fields are the entries of
\* block_setting.optional (an absent key is drawn as its default, except
\* 'propagations', whose absence is the value Missing).
DefaultSetting ==
  [ len_support_input_indices |-> 2,
    n_layer             |-> 1,
    bias                |-> FALSE,
    activation          |-> "identity",
    residual            |-> FALSE,
    activation_after_residual |-> TRUE,
    has_input_names     |-> FALSE,
    n_input_names       |-> 0,
    create_subchain     |-> TRUE,
    dim                 |-> 3,
    support_tensor_rank |-> 1,
    symmetric           |-> FALSE,
    ah_w                |-> FALSE,
    propagations        |-> <<"convolution">>,
    create_neumann_linear |-> FALSE,
    create_neumann_ratio  |-> FALSE,
    nodes_first         |-> 2,
    nodes_last          |-> 2 ]

\* Numbers of supports given to a forward call.
SupportCounts == {2, 3, 4}

PropagationLists == SeqsUpTo(PropagationNames, MaxPropagations)

\* len(nodes) - 1 of a block that can be built: a single layer, or more
\* (the block then gets a coefficient network).
LayerCounts == {1, 2}

\* Settings that exercise the rank / bias / activation rules.
ValidationSettings ==
  { bs \in { [DefaultSetting EXCEPT !.create_subchain = cs, !.n_layer = n, !.bias = b,
        !.ah_w = a, !.activation = act, !.propagations = p,
        !.dim = d, !.support_tensor_rank = r] :
      cs \in BOOLEAN, n \in LayerCounts, b \in BOOLEAN, a \in BOOLEAN,
      act \in ActivationNames, p \in PropagationLists,
      d \in {2, 3}, r \in {1, 2} } :
    Pow(bs.dim, bs.support_tensor_rank) \in SupportCounts }

\* Settings that exercise the steps of a forward call.
ForwardSettings ==
  { [DefaultSetting EXCEPT !.n_layer = n, !.ah_w = a, !.symmetric = sym,
        !.residual = res, !.activation_after_residual = aar,
        !.has_input_names = hin, !.n_input_names = IF hin THEN 3 ELSE 0,
        !.create_neumann_linear = cnl, !.create_neumann_ratio = cnr,
        !.propagations = p] :
      n \in LayerCounts, a \in BOOLEAN, sym \in BOOLEAN, res \in BOOLEAN,
      aar \in BOOLEAN, hin \in BOOLEAN, cnl \in BOOLEAN, cnr \in BOOLEAN,
      p \in {<<"convolution", "convolution">>, <<"convolution", "tensor_product">>} }

\* Settings that exercise the checks of __init__ and _init_neumann.
RejectedSettings ==
  { [DefaultSetting EXCEPT !.len_support_input_indices = 1] }
  \cup { [DefaultSetting EXCEPT !.n_layer = 0] }
  \cup { [DefaultSetting EXCEPT !.propagations = Missing,
                               !.len_support_input_indices = k,
                               !.create_subchain = cs, !.n_layer = n,
                               !.has_input_names = hin,
                               !.n_input_names = IF hin THEN 3 ELSE 0] :
            k \in {1, 2}, cs \in BOOLEAN, n \in {0} \cup LayerCounts,
            hin \in BOOLEAN }
  \cup { [DefaultSetting EXCEPT !.propagations = p] :
            p \in SeqsUpTo(PropagationNames \cup {UnknownName}, MaxPropagations)
                     \ PropagationLists }
  \cup { [DefaultSetting EXCEPT !.has_input_names = TRUE, !.n_input_names = k,
                               !.bias = b, !.n_layer = n,
                               !.create_neumann_linear = cnl,
                               !.create_neumann_ratio = cnr] :
            k \in 1..4, b \in BOOLEAN, n \in LayerCounts,
            cnl \in BOOLEAN, cnr \in BOOLEAN }

\* Settings that exercise the layer count: no layer (rejected with a
\* subchain), one layer, or more.
LayerSettings ==
  { bs \in { [DefaultSetting EXCEPT !.create_subchain = cs, !.n_layer = n,
                 !.bias = b, !.activation = act] :
               cs \in BOOLEAN, n \in 0..3, b \in BOOLEAN,
               act \in ActivationNames } :
    bs.create_subchain \/ bs.n_layer # 0 }

\* Widths nodes[0] and nodes[-1] drawn.
Widths == {1, 2, 3}

\* Settings that exercise the widths of the linear maps of a block with
\* boundary injection.
WidthSettings ==
  { [DefaultSetting EXCEPT !.has_input_names = TRUE, !.n_input_names = 3,
        !.create_neumann_linear = cnl, !.n_layer = n,
        !.nodes_first = w_in, !.nodes_last = w_out] :
      cnl \in BOOLEAN, n \in LayerCounts, w_in \in Widths, w_out \in Widths }

BlockSettings ==
  ValidationSettings \cup ForwardSettings \cup RejectedSettings
    \cup LayerSettings \cup WidthSettings

\* ------------------------------------------------------------- __init__
\* _create_propagation_function: the operator a name resolves to, or the
\* ValueError for an unexpected name.
CreatePropagationFunction(str_propagation) ==
  IF str_propagation = "convolution" THEN "_convolution"
  ELSE IF str_propagation = "contraction" THEN "_contraction"
  ELSE IF str_propagation = "tensor_product" THEN "_tensor_product"
  ELSE IF str_propagation = "rotation" THEN "_rotation"
  ELSE "ValueError"

\* Variant: the callables collected in reverse list order.
CreatePropagationFunctions_Reversed(str_propagations) ==
  [i \in 1..Len(str_propagations) |->
      CreatePropagationFunction(
        str_propagations[Len(str_propagations) + 1 - i])]

\* _create_propagation_functions: one callable per entry, in list order.
CreatePropagationFunctions(str_propagations) ==
  [i \in 1..Len(str_propagations) |->
      CreatePropagationFunction(str_propagations[i])]

\* Variant: a coefficient network only for more than two layers.
HasCoefficientNetwork_MoreThanTwo(bs) == bs.create_subchain /\ bs.n_layer > 2

\* has_coefficient_network as lines 30-60 set it.
HasCoefficientNetwork(bs) == bs.create_subchain /\ bs.n_layer # 1

\* bias of self.subchains[0][0]: the block's bias for a single layer,
\* False beside a coefficient network (the Identity of a block without
\* subchain has none).
SubchainBias(bs) ==
  IF bs.create_subchain
  THEN (IF bs.n_layer = 1 THEN bs.bias ELSE FALSE)
  ELSE FALSE

\* Variant: the bias of the block's own layer checked even when a
\* dedicated map is created.
InitNeumannError_IgnoresDedicatedMap(bs) ==
  IF SubchainBias(bs) THEN "ValueError_neumann_bias" ELSE "none"

\* _init_neumann: the bias check on the linear map used for the boundary
\* field.
InitNeumannError(bs) ==
  LET neumann_linear_bias ==
        IF bs.create_neumann_linear THEN FALSE ELSE SubchainBias(bs)
  IN  IF neumann_linear_bias THEN "ValueError_neumann_bias" ELSE "none"

\* Variant: an absent 'propagations' key read as an empty plan.
InitError_DefaultPropagations(bs) ==
  IF bs.len_support_input_indices < 2 THEN "ValueError_len_support"
  ELSE IF bs.create_subchain /\ bs.n_layer = 0 THEN "ValueError_zero_layer"
  ELSE IF bs.propagations # Missing
          /\ \E i \in 1..Len(bs.propagations) :
                CreatePropagationFunction(bs.propagations[i]) = "ValueError"
       THEN "ValueError_propagation_method"
  ELSE IF bs.has_input_names
       THEN (IF bs.n_input_names # 3 THEN "ValueError_input_names"
             ELSE InitNeumannError(bs))
  ELSE "none"

\* Variant: more than three input names accepted.
InitError_AtLeastThreeNames(bs) ==
  IF bs.len_support_input_indices < 2 THEN "ValueError_len_support"
  ELSE IF bs.create_subchain /\ bs.n_layer = 0 THEN "ValueError_zero_layer"
  ELSE IF bs.propagations = Missing THEN "ValueError_no_propagations"
  ELSE IF \E i \in 1..Len(bs.propagations) :
            CreatePropagationFunction(bs.propagations[i]) = "ValueError"
       THEN "ValueError_propagation_method"
  ELSE IF bs.has_input_names
       THEN (IF bs.n_input_names < 3 THEN "ValueError_input_names"
             ELSE InitNeumannError(bs))
  ELSE "none"

\* The first error __init__ raises for a setting, in the order of its
\* checks, or "none".
InitError(bs) ==
  IF bs.len_support_input_indices < 2 THEN "ValueError_len_support"
  ELSE IF bs.create_subchain /\ bs.n_layer = 0 THEN "ValueError_zero_layer"
  ELSE IF bs.propagations = Missing THEN "ValueError_no_propagations"
  ELSE IF \E i \in 1..Len(bs.propagations) :
            CreatePropagationFunction(bs.propagations[i]) = "ValueError"
       THEN "ValueError_propagation_method"
  ELSE IF bs.has_input_names
       THEN (IF bs.n_input_names # 3 THEN "ValueError_input_names"
             ELSE InitNeumannError(bs))
  ELSE "none"

\* torch.nn.Linear(in_features, out_features), and the shape of its
\* weight, (out_features, in_features).
Linear(in_features, out_features) ==
  [ in_features |-> in_features, out_features |-> out_features ]

WeightShape(linear) == <<linear.out_features, linear.in_features>>

\* self.subchains[0][0] of a block with subchain (lines 36-50).
MainLinear(bs) == Linear(bs.nodes_first, bs.nodes_last)

\* self.neumann_linear (lines 112-117): a new map built from the unpacked
\* weight shape of the main one, or the main one itself.
NeumannLinear(bs) ==
  IF bs.create_neumann_linear
  THEN Linear(WeightShape(MainLinear(bs))[1], WeightShape(MainLinear(bs))[2])
  ELSE MainLinear(bs)

\* The attributes of a block whose construction succeeded.
BlockOf(bs) ==
  [ create_subchain         |-> bs.create_subchain,
    has_coefficient_network |-> HasCoefficientNetwork(bs),
    last_activation         |-> IF HasCoefficientNetwork(bs) THEN "identity"
                                ELSE bs.activation,
    dim                     |-> bs.dim,
    support_tensor_rank     |-> bs.support_tensor_rank,
    symmetric               |-> bs.symmetric,
    ah_w                    |-> bs.ah_w,
    propagation_functions   |-> CreatePropagationFunctions(bs.propagations),
    has_neumann             |-> bs.has_input_names,
    create_neumann_linear   |-> bs.create_neumann_linear,
    create_neumann_ratio    |-> bs.create_neumann_ratio,
    residual                |-> bs.residual,
    neumann_linear          |-> IF bs.has_input_names THEN <<NeumannLinear(bs)>>
                                ELSE <<>> ]

NoBlock == [ create_subchain |-> FALSE ]

NoCall == [ called |-> FALSE ]

\* Calling threads of one block.
Threads == {1, 2}

\* A thread that is not inside _forward_single.
IdleCall ==
  [ pc |-> "idle", x_rank |-> 0, n_supports |-> 0, first |-> FALSE,
    estimated_output_tensor_rank |-> 0, validation_error |-> "none",
    error |-> "none", steps |-> <<>>, returned |-> FALSE ]

\* No block constructed yet.
BlockInit ==
  /\ status = "unconstructed"
  /\ init_error = "none"
  /\ block_setting = DefaultSetting
  /\ block = NoBlock
  /\ is_first = TRUE
  /\ x_tensor_rank = <<>>
  /\ last = NoCall
  /\ injected = NoCall
  /\ calls = [t \in Threads |-> IdleCall]

\* No function of activations.py or setting.py called yet.
FunctionInit ==
  /\ pooling = NoCall
  /\ atanh_call = NoCall
  /\ setting = NoCall

Init == BlockInit /\ FunctionInit

\* AbstractEquivariantGNN.__init__(block_setting)
Construct ==
  /\ status = "unconstructed"
  /\ \E bs \in BlockSettings :
       /\ block_setting' = bs
       /\ init_error' = InitError(bs)
       /\ IF InitError(bs) = "none"
          THEN /\ status' = "built"
               /\ block' = BlockOf(bs)
          ELSE /\ status' = "failed"
               /\ block' = block
  /\ is_first' = TRUE
  /\ UNCHANGED <<x_tensor_rank, last, injected, calls, function_vars>>

\* ------------------------------------------------------- _validate_block
\* Variant: the rank followed through the list, a contraction of a
\* rank-0 field leaving it at rank 0.
RECURSIVE EstimatedOutputTensorRank_Sequential(_, _)
EstimatedOutputTensorRank_Sequential(x_rank, str_propagations) ==
  IF str_propagations = <<>> THEN x_rank
  ELSE EstimatedOutputTensorRank_Sequential(
         IF Head(str_propagations) = "contraction"
         THEN (IF x_rank = 0 THEN 0 ELSE x_rank - 1)
         ELSE x_rank + 1,
         Tail(str_propagations))

\* The output rank _validate_block estimates from the propagation list.
EstimatedOutputTensorRank(x_rank, str_propagations) ==
  LET n_propagation == Len(str_propagations)
      n_contraction == CountOf("contraction", str_propagations)
      n_rank_raise_propagation == n_propagation - n_contraction
  IN  x_rank - n_contraction + n_rank_raise_propagation

\* The support-length check of lines 134-137.
SupportLengthError(b, n_supports) ==
  n_supports # Pow(b.dim, b.support_tensor_rank)

\* Variant: the (AH)W test of the rank 0 -> k rule inverted.
BiasError_Rank0Inverted(b, bs, x_rank, estimated_output_tensor_rank) ==
  IF x_rank = 0
  THEN (IF estimated_output_tensor_rank > 0 /\ bs.bias /\ ~b.ah_w
        THEN "ValueError_bias_0_k" ELSE "none")
  ELSE IF estimated_output_tensor_rank = 0
       THEN (IF bs.bias /\ ~b.ah_w THEN "ValueError_bias_k_0" ELSE "none")
       ELSE (IF bs.bias THEN "ValueError_bias_k_l" ELSE "none")

\* Variant: the A(HW) test of the rank k -> 0 rule inverted.
BiasError_RankKInverted(b, bs, x_rank, estimated_output_tensor_rank) ==
  IF x_rank = 0
  THEN (IF estimated_output_tensor_rank > 0 /\ bs.bias /\ b.ah_w
        THEN "ValueError_bias_0_k" ELSE "none")
  ELSE IF estimated_output_tensor_rank = 0
       THEN (IF bs.bias /\ b.ah_w THEN "ValueError_bias_k_0" ELSE "none")
       ELSE (IF bs.bias THEN "ValueError_bias_k_l" ELSE "none")

\* Variant: the rank k -> l rule forbids bias under A(HW) only.
BiasError_RankKLOnlyAHW(b, bs, x_rank, estimated_output_tensor_rank) ==
  IF x_rank = 0
  THEN (IF estimated_output_tensor_rank > 0 /\ bs.bias /\ b.ah_w
        THEN "ValueError_bias_0_k" ELSE "none")
  ELSE IF estimated_output_tensor_rank = 0
       THEN (IF bs.bias /\ ~b.ah_w THEN "ValueError_bias_k_0" ELSE "none")
       ELSE (IF bs.bias /\ ~b.ah_w THEN "ValueError_bias_k_l" ELSE "none")

\* Variant: the rank 0 -> k rule also applied to a rank 0 output.
BiasError_Rank0Inclusive(b, bs, x_rank, estimated_output_tensor_rank) ==
  IF x_rank = 0
  THEN (IF estimated_output_tensor_rank >= 0 /\ bs.bias /\ b.ah_w
        THEN "ValueError_bias_0_k" ELSE "none")
  ELSE IF estimated_output_tensor_rank = 0
       THEN (IF bs.bias /\ ~b.ah_w THEN "ValueError_bias_k_0" ELSE "none")
       ELSE (IF bs.bias THEN "ValueError_bias_k_l" ELSE "none")

\* The rank / bias rules of lines 159-179.
BiasError(b, bs, x_rank, estimated_output_tensor_rank) ==
  IF x_rank = 0
  THEN (IF estimated_output_tensor_rank > 0 /\ bs.bias /\ b.ah_w
        THEN "ValueError_bias_0_k" ELSE "none")
  ELSE IF estimated_output_tensor_rank = 0
       THEN (IF bs.bias /\ ~b.ah_w THEN "ValueError_bias_k_0" ELSE "none")
       ELSE (IF bs.bias THEN "ValueError_bias_k_l" ELSE "none")

\* Variant: the support-length check made after the early returns.
ValidateBlock_LateSupportCheck(b, bs, x_rank, n_supports) ==
  LET estimated_output_tensor_rank ==
        EstimatedOutputTensorRank(x_rank, bs.propagations)
  IN  IF ~b.create_subchain THEN "none"
      ELSE IF b.has_coefficient_network THEN "none"
      ELSE IF SupportLengthError(b, n_supports) THEN "ValueError_support_length"
      ELSE IF estimated_output_tensor_rank > 0 /\ bs.activation # "identity"
           THEN "ValueError_activation"
      ELSE BiasError(b, bs, x_rank, estimated_output_tensor_rank)

\* Variant: identity activation demanded for a rank 0 output as well.
ValidateBlock_ActivationInclusive(b, bs, x_rank, n_supports) ==
  LET estimated_output_tensor_rank ==
        EstimatedOutputTensorRank(x_rank, bs.propagations)
  IN  IF SupportLengthError(b, n_supports) THEN "ValueError_support_length"
      ELSE IF ~b.create_subchain THEN "none"
      ELSE IF b.has_coefficient_network THEN "none"
      ELSE IF estimated_output_tensor_rank >= 0 /\ bs.activation # "identity"
           THEN "ValueError_activation"
      ELSE BiasError(b, bs, x_rank, estimated_output_tensor_rank)

\* The error _validate_block raises for an input of rank x_rank and
\* n_supports supports, or "none".
ValidateBlock(b, bs, x_rank, n_supports) ==
  LET estimated_output_tensor_rank ==
        EstimatedOutputTensorRank(x_rank, bs.propagations)
  IN  IF SupportLengthError(b, n_supports) THEN "ValueError_support_length"
      ELSE IF ~b.create_subchain THEN "none"
      ELSE IF b.has_coefficient_network THEN "none"
      ELSE IF estimated_output_tensor_rank > 0 /\ bs.activation # "identity"
           THEN "ValueError_activation"
      ELSE BiasError(b, bs, x_rank, estimated_output_tensor_rank)

ValidationErrors ==
  { "ValueError_support_length", "ValueError_activation",
    "ValueError_bias_0_k", "ValueError_bias_k_0", "ValueError_bias_k_l" }

\* ------------------------------------------------------- _forward_single
\* Methods the class body defines, and the operators a concrete block
\* supplies for the four propagation names.
ClassMethods ==
  { "__init__", "_init_neumann", "_validate_block", "_forward_single",
    "_add_neumann", "_propagate", "_propagate_core_explicit",
    "_create_propagation_functions", "_create_propagation_function",
    "_calculate_dim" }

OperatorMethods == { "_convolution", "_contraction", "_tensor_product", "_rotation" }

\* Attributes __init__ and _init_neumann assign on the block.
BlockAttributes(b) ==
  { "is_first", "create_subchain", "subchains", "has_coefficient_network",
    "last_activation", "dim", "support_tensor_rank", "symmetric", "factor",
    "ah_w", "propagation_functions", "has_neumann" }
  \cup (IF b.has_coefficient_network
        THEN {"coefficient_network", "contraction"} ELSE {})
  \cup (IF b.has_neumann
        THEN {"create_neumann_linear", "neumann_factor",
              "create_neumann_ratio", "neumann_linear"} ELSE {})
  \cup (IF b.has_neumann /\ b.create_neumann_ratio
        THEN {"neumann_ratio"} ELSE {})

\* self.<name> resolves to something.
Resolves(b, name) ==
  name \in ClassMethods \cup OperatorMethods \cup BlockAttributes(b)

\* Rank change of each propagation operator.
RankChange(fn) ==
  IF fn = "_convolution" THEN 1
  ELSE IF fn = "_contraction" THEN 0 - 1
  ELSE IF fn = "_tensor_product" THEN 1
  ELSE 0

\* The running result of a call: the steps that took effect so far, the
\* error raised ("none" while running) and the rank of the field h.
StartCall(x_rank) == [ steps |-> <<>>, error |-> "none", h_rank |-> x_rank ]

Step(st, name) == [st EXCEPT !.steps = Append(@, name)]

Raise(st, err) == [st EXCEPT !.error = err]

\* _propagate_core_explicit: every operator of the plan in list order,
\* each followed by the multiplication by factor.
RECURSIVE PropagateCoreExplicit(_, _)
PropagateCoreExplicit(st, fns) ==
  IF fns = <<>> THEN st
  ELSE PropagateCoreExplicit(
         [ steps  |-> st.steps \o <<Head(fns), "factor">>,
           error  |-> st.error,
           h_rank |-> st.h_rank + RankChange(Head(fns)) ],
         Tail(fns))

\* _propagate: weighting, the propagation core, symmetrization, dropout.
Propagate(b, st) ==
  LET s1 == IF ~b.ah_w THEN Step(st, "linear") ELSE st
      s2 == IF Resolves(b, "_propagete_core_explicit")
            THEN PropagateCoreExplicit(s1, b.propagation_functions)
            ELSE Raise(s1, "AttributeError")
      s3 == IF b.ah_w THEN Step(s2, "linear") ELSE s2
      s4 == IF b.symmetric
            THEN (IF s3.h_rank = 2 THEN Step(s3, "symmetrize")
                  ELSE Raise(s3, "EinopsError"))
            ELSE s3
      s5 == Step(s4, "dropout")
  IN  IF s2.error # "none" THEN s2
      ELSE IF s4.error # "none" THEN s4
      ELSE s5

\* _add_neumann: the boundary term, blended by the learnable ratio when
\* one is configured.
AddNeumann(b, st) ==
  LET s1 == Step(st, "neumann_linear")
  IN  IF b.create_neumann_ratio
      THEN (IF Resolves(b, "coeff") THEN Step(s1, "neumann_blend")
            ELSE Raise(s1, "AttributeError"))
      ELSE Step(s1, "neumann_add")

\* The part of _forward_single after validation (lines 186-211).
ForwardBody(b, bs, x_rank, n_args, xtr) ==
  LET s0 == StartCall(x_rank)
      s1 == IF b.residual THEN Step(s0, "shortcut") ELSE s0
      s2 == Propagate(b, s1)
      s3 == IF b.has_neumann
            THEN (IF n_args < 2 THEN Raise(s2, "IndexError")
                  ELSE AddNeumann(b, s2))
            ELSE s2
      s4 == IF b.has_coefficient_network
            THEN (IF xtr = 0 THEN Step(s3, "coefficient_of_x")
                  ELSE Step(s3, "coefficient_of_contraction"))
            ELSE s3
      s5 == IF bs.activation_after_residual
            THEN Step(Step(s4, "add_shortcut"), "last_activation")
            ELSE Step(Step(s4, "last_activation"), "add_shortcut")
  IN  IF s2.error # "none" THEN s2
      ELSE IF s3.error # "none" THEN s3
      ELSE s5

\* Variant: the flag toggled instead of cleared.
IsFirstAfter_Toggle(first, err) == IF err = "none" THEN ~first ELSE first

\* Variant: the flag cleared whether or not validation raised.
IsFirstAfter_AlwaysClear(first, err) == FALSE

\* is_first after a call that found it first and whose validation gave err.
IsFirstAfter(first, err) == IF first /\ err = "none" THEN FALSE ELSE first

\* _forward_single(x, *args, supports): x of rank x_rank, n_args extra
\* positional arguments, n_supports supports.
Forward(x_rank, n_args, n_supports) ==
  /\ status = "built"
  /\ LET first == is_first
         verr  == IF first
                  THEN ValidateBlock(block, block_setting, x_rank, n_supports)
                  ELSE "none"
         xtr   == IF first THEN x_rank ELSE x_tensor_rank[1]
         body  == ForwardBody(block, block_setting, x_rank, n_args, xtr)
     IN  /\ x_tensor_rank' = IF first THEN <<x_rank>> ELSE x_tensor_rank
         /\ is_first' = IsFirstAfter(first, verr)
         /\ last' = [ called     |-> TRUE,
                      x_rank     |-> x_rank,
                      n_args     |-> n_args,
                      n_supports |-> n_supports,
                      first      |-> first,
                      error      |-> IF verr # "none" THEN verr ELSE body.error,
                      steps      |-> IF verr # "none" THEN <<>> ELSE body.steps,
                      returned   |-> verr = "none" /\ body.error = "none" ]
  /\ UNCHANGED <<status, init_error, block_setting, block, injected, calls,
                 function_vars>>

Ranks == 0..MaxRank

\* _add_neumann(grad, directed_neumann, inversed_moment_tensors) called on
\* a block built for boundary injection, grad of rank grad_rank.
AddNeumannCall(grad_rank) ==
  /\ status = "built"
  /\ block.has_neumann
  /\ LET st == AddNeumann(block, StartCall(grad_rank))
     IN  injected' = [ called    |-> TRUE,
                       grad_rank |-> grad_rank,
                       steps     |-> st.steps,
                       error     |-> st.error,
                       returned  |-> st.error = "none" ]
  /\ UNCHANGED <<status, init_error, block_setting, block, is_first,
                 x_tensor_rank, last, calls, function_vars>>

\* Extra positional arguments of a call: none, or the two boundary fields
\* for the settings that exercise the forward steps.
ArgCounts == IF block_setting \in ForwardSettings THEN {0, 2} ELSE {0}

Next ==
  \/ Construct
  \/ \E x_rank \in Ranks, n_args \in ArgCounts, n_supports \in SupportCounts :
        Forward(x_rank, n_args, n_supports)
  \/ \E grad_rank \in Ranks \ {0} : AddNeumannCall(grad_rank)

Spec == Init /\ [][Next]_vars

----------------------------------------------------------------------------
\* Forward calls of several threads on one block.  The interpreter switches
\* threads between bytecodes, so every read and every write of an attribute
\* of the block is a step of its own; what a call computes from its own
\* arguments and locals between two such accesses belongs to the step of
\* the access before it.

\* Settings of the blocks shared by the threads: the rank, activation and
\* bias rules all occur.
ConcurrentSettings ==
  { [DefaultSetting EXCEPT !.bias = b, !.activation = act, !.propagations = p] :
      b \in BOOLEAN, act \in ActivationNames,
      p \in {<<"convolution">>, <<"contraction">>} }

\* A block just constructed, no forward call made yet.
InitConcurrent ==
  /\ status = "built"
  /\ init_error = "none"
  /\ block_setting \in ConcurrentSettings
  /\ block = BlockOf(block_setting)
  /\ is_first = TRUE
  /\ x_tensor_rank = <<>>
  /\ last = NoCall
  /\ injected = NoCall
  /\ calls = [t \in Threads |-> IdleCall]
  /\ FunctionInit

\* The call of thread t after a step that leaves the block as it is.
Only(t, call) ==
  /\ calls' = [calls EXCEPT ![t] = call]
  /\ UNCHANGED <<status, init_error, block_setting, block, last, injected,
                 function_vars>>

\* Thread t calls _forward_single(x, supports=supports).
Enter(t, x_rank, n_supports) ==
  /\ calls[t].pc \in {"idle", "returned", "raised"}
  /\ Only(t, [IdleCall EXCEPT !.pc = "test", !.x_rank = x_rank,
                              !.n_supports = n_supports])
  /\ UNCHANGED <<is_first, x_tensor_rank>>

\* if self.is_first:
TestFirst(t) ==
  /\ calls[t].pc = "test"
  /\ Only(t, [calls[t] EXCEPT !.first = is_first,
                              !.pc = IF is_first THEN "write" ELSE "body"])
  /\ UNCHANGED <<is_first, x_tensor_rank>>

\* _validate_block: self.x_tensor_rank = len(shape) - 2, then the test of
\* the number of supports and of create_subchain.
WriteRank(t) ==
  /\ calls[t].pc = "write"
  /\ x_tensor_rank' = <<calls[t].x_rank>>
  /\ Only(t, IF SupportLengthError(block, calls[t].n_supports)
             THEN [calls[t] EXCEPT !.pc = "raised",
                     !.validation_error = "ValueError_support_length",
                     !.error = "ValueError_support_length"]
             ELSE IF ~block.create_subchain
                  THEN [calls[t] EXCEPT !.pc = "clear"]
                  ELSE [calls[t] EXCEPT !.pc = "estimate"])
  /\ UNCHANGED is_first

\* _validate_block: the estimate, from self.x_tensor_rank as it is now, and
\* the activation rule.
Estimate(t) ==
  /\ calls[t].pc = "estimate"
  /\ LET estimated_output_tensor_rank ==
           EstimatedOutputTensorRank(x_tensor_rank[1],
                                     block_setting.propagations)
     IN  Only(t, IF block.has_coefficient_network
                 THEN [calls[t] EXCEPT !.pc = "clear"]
                 ELSE IF /\ estimated_output_tensor_rank > 0
                         /\ block_setting.activation # "identity"
                      THEN [calls[t] EXCEPT !.pc = "raised",
                              !.validation_error = "ValueError_activation",
                              !.error = "ValueError_activation"]
                      ELSE [calls[t] EXCEPT !.pc = "bias",
                              !.estimated_output_tensor_rank =
                                 estimated_output_tensor_rank])
  /\ UNCHANGED <<is_first, x_tensor_rank>>

\* _validate_block: the bias rules, from self.x_tensor_rank read again.
BiasRules(t) ==
  /\ calls[t].pc = "bias"
  /\ LET err == BiasError(block, block_setting, x_tensor_rank[1],
                          calls[t].estimated_output_tensor_rank)
     IN  Only(t, IF err # "none"
                 THEN [calls[t] EXCEPT !.pc = "raised",
                         !.validation_error = err, !.error = err]
                 ELSE [calls[t] EXCEPT !.pc = "clear"])
  /\ UNCHANGED <<is_first, x_tensor_rank>>

\* Variant: the flag flipped instead of cleared.
ClearFirst_Toggle(t) ==
  /\ calls[t].pc = "clear"
  /\ is_first' = ~is_first
  /\ Only(t, [calls[t] EXCEPT !.pc = "body"])
  /\ UNCHANGED x_tensor_rank

\* self.is_first = False
ClearFirst(t) ==
  /\ calls[t].pc = "clear"
  /\ is_first' = FALSE
  /\ Only(t, [calls[t] EXCEPT !.pc = "body"])
  /\ UNCHANGED x_tensor_rank

\* The rest of _forward_single, which only reads the block.
Body(t) ==
  /\ calls[t].pc = "body"
  /\ LET body == ForwardBody(block, block_setting, calls[t].x_rank, 0,
                             x_tensor_rank[1])
     IN  Only(t, [calls[t] EXCEPT
                    !.pc = IF body.error = "none" THEN "returned" ELSE "raised",
                    !.error = body.error,
                    !.steps = body.steps,
                    !.returned = body.error = "none"])
  /\ UNCHANGED <<is_first, x_tensor_rank>>

NextConcurrent ==
  \E t \in Threads :
    \/ \E x_rank \in Ranks, n_supports \in SupportCounts :
          Enter(t, x_rank, n_supports)
    \/ TestFirst(t)
    \/ WriteRank(t)
    \/ Estimate(t)
    \/ BiasRules(t)
    \/ ClearFirst(t)
    \/ Body(t)

SpecConcurrent == InitConcurrent /\ [][NextConcurrent]_vars

\* ---------------------------------------------- activations: reductions
\* A field is drawn without its feature axis: a sequence of rows for
\* 1-entry shapes, a sequence (leading axis) of sequences of rows (second
\* axis) for longer shapes.
RECURSIVE SumOf(_)
SumOf(s) == IF s = <<>> THEN 0 ELSE Head(s) + SumOf(Tail(s))

\* The consecutive runs of s of the given sizes.
RECURSIVE Runs(_, _)
Runs(s, sizes) ==
  IF sizes = <<>> THEN <<>>
  ELSE <<SubSeq(s, 1, Head(sizes))>>
       \o Runs(SubSeq(s, Head(sizes) + 1, Len(s)), Tail(sizes))

\* torch.split(x, sizes, dim): the pieces, or the error torch raises when
\* the sizes do not sum to the length of x along dim.
TorchSplit(x, sizes, dim) ==
  IF dim = 0
  THEN (IF SumOf(sizes) # Len(x)
        THEN [ error |-> "RuntimeError", pieces |-> <<>> ]
        ELSE [ error |-> "none", pieces |-> Runs(x, sizes) ])
  ELSE (IF \E a \in 1..Len(x) : SumOf(sizes) # Len(x[a])
        THEN [ error |-> "RuntimeError", pieces |-> <<>> ]
        ELSE [ error |-> "none",
               pieces |-> [j \in 1..Len(sizes) |->
                            [a \in 1..Len(x) |-> Runs(x[a], sizes)[j]]] ])

\* Variant: the sizes of 2-entry shapes read from their first entry.
Split_FirstEntry(x, original_shapes) ==
  IF original_shapes.is_dict
  THEN [ error |-> "ValueError_dict", pieces |-> <<>> ]
  ELSE LET shapes == original_shapes.shapes
       IN  IF Len(shapes) = 1 THEN [ error |-> "none", pieces |-> <<x>> ]
           ELSE IF Len(shapes[1]) = 1
                THEN TorchSplit(x, [j \in 1..Len(shapes) |-> shapes[j][1]], 0)
           ELSE IF Len(shapes[1]) = 2
                THEN TorchSplit(x, [j \in 1..Len(shapes) |-> shapes[j][1]], 1)
           ELSE [ error |-> "ValueError_shapes", pieces |-> <<>> ]

\* split(x, original_shapes)
Split(x, original_shapes) ==
  IF original_shapes.is_dict
  THEN [ error |-> "ValueError_dict", pieces |-> <<>> ]
  ELSE LET shapes == original_shapes.shapes
       IN  IF Len(shapes) = 1 THEN [ error |-> "none", pieces |-> <<x>> ]
           ELSE IF Len(shapes[1]) = 1
                THEN TorchSplit(x, [j \in 1..Len(shapes) |-> shapes[j][1]], 0)
           ELSE IF Len(shapes[1]) = 2
                THEN TorchSplit(x, [j \in 1..Len(shapes) |-> shapes[j][2]], 1)
           ELSE [ error |-> "ValueError_shapes", pieces |-> <<>> ]

RECURSIVE MaxOf(_)
MaxOf(s) ==
  IF Len(s) = 1 THEN s[1]
  ELSE LET m == MaxOf(Tail(s)) IN IF Head(s) > m THEN Head(s) ELSE m

RECURSIVE MinOf(_)
MinOf(s) ==
  IF Len(s) = 1 THEN s[1]
  ELSE LET m == MinOf(Tail(s)) IN IF Head(s) < m THEN Head(s) ELSE m

\* torch.max / torch.mean / min_func of a run of rows; the mean is kept
\* as the pair <<sum, count>> (0/0, a nan, for an empty run).
ReduceRun(fn, rows) ==
  IF fn = "max_pool" THEN MaxOf(rows)
  ELSE IF fn = "min" THEN MinOf(rows)
  ELSE <<SumOf(rows), Len(rows)>>

\* max_pool / mean / min (x, original_shapes): the split, the reduction
\* of every piece over axis dim and the stack of the results along dim.
\* max and min of an empty piece raise.
Reduction(fn, x, original_shapes) ==
  LET split_x == Split(x, original_shapes)
      dim == Len(original_shapes.shapes[1]) - 1
      k == Len(split_x.pieces)
      empty == IF dim = 0
               THEN \E j \in 1..k : split_x.pieces[j] = <<>>
               ELSE \E j \in 1..k : \E a \in 1..Len(x) :
                      split_x.pieces[j][a] = <<>>
  IN  IF split_x.error # "none"
      THEN [ error |-> split_x.error, out |-> <<>> ]
      ELSE IF empty /\ fn # "mean"
      THEN [ error |-> "IndexError", out |-> <<>> ]
      ELSE IF dim = 0
      THEN [ error |-> "none",
             out |-> [j \in 1..k |-> ReduceRun(fn, split_x.pieces[j])] ]
      ELSE [ error |-> "none",
             out |-> [a \in 1..Len(x) |->
                       [j \in 1..k |-> ReduceRun(fn, split_x.pieces[j][a])]] ]

ReductionNames == { "max_pool", "mean", "min" }

\* Row values of the fields drawn.
RowValues == {0, 1, 2}

\* Fields with a single axis of rows, and fields with a leading axis of
\* length 2 before the axis of rows.
Fields1 == SeqsUpTo(RowValues, MaxRows)

Fields2 ==
  { f \in SeqsUpTo({0, 1}, MaxRows) \X SeqsUpTo({0, 1}, MaxRows) :
      Len(f[1]) = Len(f[2]) }

\* Group sizes drawn: 1 to MaxRows groups, possibly empty, summing to at
\* most one row more than the longest field.
GroupSizes ==
  { sizes \in SeqsUpTo(0..MaxRows, MaxRows) :
      sizes # <<>> /\ SumOf(sizes) <= MaxRows + 1 }

\* original_shapes of n_entries entries per group for the given sizes
\* (the leading entries of longer shapes are the length of the leading
\* axis and of the feature axis).
ShapesOf(n_entries, sizes) ==
  [j \in 1..Len(sizes) |->
     IF n_entries = 1 THEN <<sizes[j]>>
     ELSE IF n_entries = 2 THEN <<2, sizes[j]>>
     ELSE <<2, sizes[j], 1>>]

\* The example of the specification: 9 rows in groups of 3, 2 and 4.
ExampleField == <<1, 5, 2, 7, 3, 4, 9, 6, 8>>

ExampleSizes == <<3, 2, 4>>

\* A field x and its original_shapes are at hand, no reduction called yet.
PoolingInput(x, is_dict, n_entries, sizes) ==
  pooling = [ called |-> FALSE, x |-> x,
              original_shapes |-> [ is_dict |-> is_dict,
                                    shapes |-> ShapesOf(n_entries, sizes) ] ]

\* The calls drawn: 1-entry shapes on single-axis fields, 2-entry shapes
\* on two-axis fields, 3-entry shapes (rejected by split for more than one
\* group), a dict of shapes, and the example.
InitPooling ==
  /\ BlockInit
  /\ atanh_call = NoCall
  /\ setting = NoCall
  /\ \/ \E x \in Fields1, sizes \in GroupSizes :
          PoolingInput(x, FALSE, 1, sizes)
     \/ \E x \in Fields2, sizes \in GroupSizes :
          PoolingInput(x, FALSE, 2, sizes)
     \/ \E x \in Fields2, sizes \in { g \in GroupSizes : Len(g) = 2 } :
          PoolingInput(x, FALSE, 3, sizes)
     \/ \E x \in Fields1 : PoolingInput(x, TRUE, 1, <<Len(x)>>)
     \/ PoolingInput(ExampleField, FALSE, 1, ExampleSizes)
     \/ PoolingInput(<<ExampleField, ExampleField>>, FALSE, 2, ExampleSizes)

\* max_pool, mean or min called on the field.
Reduce(fn) ==
  /\ LET r == Reduction(fn, pooling.x, pooling.original_shapes)
     IN  pooling' = [ called |-> TRUE, x |-> pooling.x,
                      original_shapes |-> pooling.original_shapes,
                      fn |-> fn, error |-> r.error, out |-> r.out ]
  /\ UNCHANGED <<block_vars, atanh_call, setting>>

NextPooling == \E fn \in ReductionNames : Reduce(fn)

SpecPooling == InitPooling /\ [][NextPooling]_vars

\* ------------------------------------------------------------- deepsets
\* The group index of every row of the pieces, in the order torch.cat
\* joins them: row i of the result is lambda_(x)[i] plus the pooled
\* gamma(x) of the group named.
RECURSIVE GroupOfRows(_, _)
GroupOfRows(pieces, j) ==
  IF j > Len(pieces) THEN <<>>
  ELSE [i \in 1..Len(pieces[j]) |-> j] \o GroupOfRows(pieces, j + 1)

\* DeepSets._forward_core(x, original_shapes=...) of a block with or
\* without dict_key; a dict of shapes is keyed by variable names, its
\* entry for dict_key being the list of shapes.
ForwardCore(dict_key_given, x, original_shapes) ==
  LET shapes == [ is_dict |-> original_shapes.is_dict /\ ~dict_key_given,
                  shapes  |-> original_shapes.shapes ]
      pooled == Reduction("max_pool", x, shapes)
      split_h == Split(x, shapes)
  IN  IF dict_key_given /\ ~original_shapes.is_dict
      THEN [ error |-> "TypeError", out |-> <<>> ]
      ELSE IF shapes.is_dict
      THEN [ error |-> "KeyError", out |-> <<>> ]
      ELSE IF split_h.error # "none"
      THEN [ error |-> split_h.error, out |-> <<>> ]
      ELSE IF pooled.error # "none"
      THEN [ error |-> pooled.error, out |-> <<>> ]
      ELSE [ error |-> "none", out |-> GroupOfRows(split_h.pieces, 1) ]

\* A single-axis field and its shapes, as a list or in a dict, are at
\* hand.
InitDeepSets ==
  /\ BlockInit
  /\ atanh_call = NoCall
  /\ setting = NoCall
  /\ \E x \in Fields1, sizes \in GroupSizes, is_dict \in BOOLEAN :
        PoolingInput(x, is_dict, 1, sizes)

\* The forward call of a DeepSets block on the field.
DeepSetsForward(dict_key_given) ==
  /\ LET r == ForwardCore(dict_key_given, pooling.x, pooling.original_shapes)
     IN  pooling' = [ called |-> TRUE, x |-> pooling.x,
                      original_shapes |-> pooling.original_shapes,
                      fn |-> "deepsets", dict_key_given |-> dict_key_given,
                      error |-> r.error, out |-> r.out ]
  /\ UNCHANGED <<block_vars, atanh_call, setting>>

NextDeepSets ==
  \/ \E dict_key_given \in BOOLEAN : DeepSetsForward(dict_key_given)
  \/ \E fn \in ReductionNames : Reduce(fn)

SpecDeepSets == InitDeepSets /\ [][NextDeepSets]_vars

\* --------------------------------------------------- activations: atanh
\* Tensor elements and epsilon are drawn on a grid of step 1e-5: One is
\* the value 1.0, DefaultEpsilon the default epsilon=1e-5.
One == 100000

DefaultEpsilon == 1

\* epsilon of a call: the default, or twice as wide.
Epsilons == { DefaultEpsilon, 2 * DefaultEpsilon }

\* Elements drawn: 0, the values within three grid steps of 1.0 and of
\* -1.0, and 1.1 and -1.1.
ElementValues ==
  {0} \cup ((One - 3)..(One + 3)) \cup ((0 - One - 3)..(0 - One + 3))
      \cup { One + One \div 10, 0 - One - One \div 10 }

Tensors == SeqsUpTo(ElementValues, MaxElements) \ {<<>>}

\* The two masked assignments of lines 21-22, in their order.
Clip(v, epsilon) ==
  LET v1 == IF v > One - epsilon THEN One - epsilon ELSE v
  IN  IF v1 < 0 - One + epsilon THEN 0 - One + epsilon ELSE v1

\* Variant: the tensor clipped before the range is checked.
AtanhOf_ClipFirst(x, epsilon) ==
  LET clipped == [i \in 1..Len(x) |-> Clip(x[i], epsilon)]
  IN  IF \E i \in 1..Len(x) :
           clipped[i] > One + epsilon \/ clipped[i] < 0 - One - epsilon
      THEN [ error |-> "ValueError", x |-> x, out |-> <<>> ]
      ELSE [ error |-> "none", x |-> clipped,
             out |-> [i \in 1..Len(x) |-> <<"atanh", clipped[i]>>] ]

\* atanh(x, epsilon): the error raised or "none", the caller's tensor x
\* after the call (clipped in place) and the returned tensor, whose
\* elements are torch.atanh of the clipped ones.
AtanhOf(x, epsilon) ==
  IF \E i \in 1..Len(x) : x[i] > One + epsilon \/ x[i] < 0 - One - epsilon
  THEN [ error |-> "ValueError", x |-> x, out |-> <<>> ]
  ELSE LET clipped == [i \in 1..Len(x) |-> Clip(x[i], epsilon)]
       IN  [ error |-> "none", x |-> clipped,
             out |-> [i \in 1..Len(x) |-> <<"atanh", clipped[i]>>] ]

\* A tensor is at hand, atanh not called yet.
InitAtanh ==
  /\ BlockInit
  /\ pooling = NoCall
  /\ setting = NoCall
  /\ \E x \in Tensors :
        atanh_call = [ called |-> FALSE, x |-> x ]

\* atanh(x, epsilon) called on the tensor at hand.
Atanh(epsilon) ==
  /\ LET r == AtanhOf(atanh_call.x, epsilon)
     IN  atanh_call' = [ called |-> TRUE, x0 |-> atanh_call.x,
                         epsilon |-> epsilon, x |-> r.x,
                         error |-> r.error, out |-> r.out ]
  /\ UNCHANGED <<block_vars, pooling, setting>>

NextAtanh == \E epsilon \in Epsilons : Atanh(epsilon)

SpecAtanh == InitAtanh /\ [][NextAtanh]_vars

\* --------------------------------------------------- setting: BlockSetting
\* The arguments of BlockSetting(...) that __post_init__ looks at: the
\* lengths of the nodes / activations / dropouts lists passed, whether
\* hidden_nodes is given, hidden_layers (<<>> for None, <<n>> otherwise),
\* and what the conversion function of the first field that fails to
\* coerce raises ("none" when every field converts).
BlockSettingArguments ==
  [ n_nodes       : 0..(MaxHiddenLayers + 2),
    n_activations : 0..(MaxHiddenLayers + 1),
    n_dropouts    : 0..(MaxHiddenLayers + 1),
    hidden_nodes_given : BOOLEAN,
    hidden_layers : {<<>>} \cup { <<n>> : n \in 0..MaxHiddenLayers },
    conversion    : { "none", "TypeError", "ValueError" } ]

\* Length of [item] * n.
Times(n) == IF n < 0 THEN 0 ELSE n

\* Variant: one dropout per hidden layer instead of one less.
DynamicDefinition_ExtraDropout(a) ==
  IF a.hidden_nodes_given /\ a.hidden_layers # <<>>
  THEN [ n_nodes       |-> 1 + Times(a.hidden_layers[1]) + 1,
         n_activations |-> Times(a.hidden_layers[1]) + 1,
         n_dropouts    |-> 1 + Times(a.hidden_layers[1]) + 1 ]
  ELSE [ n_nodes       |-> a.n_nodes,
         n_activations |-> a.n_activations,
         n_dropouts    |-> a.n_dropouts ]

\* The list lengths after the dynamic definition of layers (lines 348-356).
DynamicDefinition(a) ==
  IF a.hidden_nodes_given /\ a.hidden_layers # <<>>
  THEN [ n_nodes       |-> 1 + Times(a.hidden_layers[1]) + 1,
         n_activations |-> Times(a.hidden_layers[1]) + 1,
         n_dropouts    |-> 1 + Times(a.hidden_layers[1] - 1) + 1 ]
  ELSE [ n_nodes       |-> a.n_nodes,
         n_activations |-> a.n_activations,
         n_dropouts    |-> a.n_dropouts ]

\* TypedDataClass.convert: a TypeError of a conversion function is raised
\* again as the TypeError naming the field, anything else propagates.
Convert(a) ==
  IF a.conversion = "none" THEN "none"
  ELSE IF a.conversion = "TypeError" THEN "TypeError_names_field"
  ELSE a.conversion

\* Variant: the fields coerced before the layer counts are compared.
PostInit_CoerceFirst(a) ==
  LET lists == DynamicDefinition(a)
      valid == /\ lists.n_nodes - 1 = lists.n_activations
               /\ lists.n_activations = lists.n_dropouts
  IN  IF Convert(a) # "none"
      THEN [ error |-> Convert(a), lists |-> lists, coerced |-> FALSE ]
      ELSE IF ~valid
      THEN [ error |-> "ValueError_block_definition", lists |-> lists,
             coerced |-> TRUE ]
      ELSE [ error |-> "none", lists |-> lists, coerced |-> TRUE ]

\* BlockSetting.__post_init__: the error raised or "none", the lists in
\* force and whether the coercion of the fields completed.
PostInit(a) ==
  LET lists == DynamicDefinition(a)
      valid == /\ lists.n_nodes - 1 = lists.n_activations
               /\ lists.n_activations = lists.n_dropouts
  IN  IF ~valid
      THEN [ error |-> "ValueError_block_definition", lists |-> lists,
             coerced |-> FALSE ]
      ELSE IF Convert(a) # "none"
      THEN [ error |-> Convert(a), lists |-> lists, coerced |-> FALSE ]
      ELSE [ error |-> "none", lists |-> lists, coerced |-> TRUE ]

\* The arguments of a BlockSetting are at hand, none constructed yet.
InitSetting ==
  /\ BlockInit
  /\ pooling = NoCall
  /\ atanh_call = NoCall
  /\ \E a \in BlockSettingArguments :
        setting = [ called |-> FALSE, arguments |-> a ]

\* BlockSetting(...) constructed from the arguments at hand.
ConstructSetting ==
  /\ LET r == PostInit(setting.arguments)
     IN  setting' = [ called |-> TRUE, arguments |-> setting.arguments,
                      error |-> r.error, lists |-> r.lists,
                      coerced |-> r.coerced ]
  /\ UNCHANGED <<block_vars, pooling, atanh_call>>

NextSetting == ConstructSetting

SpecSetting == InitSetting /\ [][NextSetting]_vars

\* ---------------------------------------------------------------- claims
\* The latest call was a first call (it ran _validate_block).
FirstCall == last.called /\ last.first

\* The rank _validate_block estimates for the latest call.
LastEstimatedRank ==
  EstimatedOutputTensorRank(last.x_rank, block_setting.propagations)

\* The latest call was given dim**support_tensor_rank supports.
LastSupportsOk ==
  last.n_supports = Pow(block.dim, block.support_tensor_rank)

\* The block of the claims on the bias rules: create_subchain true and a
\* single layer, hence no coefficient network.
SingleLayerBlock ==
  block.create_subchain /\ block_setting.n_layer = 1
    /\ ~block.has_coefficient_network

BiasErrors ==
  { "ValueError_bias_0_k", "ValueError_bias_k_0", "ValueError_bias_k_l" }

\* C1: once a forward call has passed validation is_first is False and
\* stays False, and every forward call made from then on runs no
\* validation: it raises no support-length, activation or bias error,
\* whatever its input rank and number of supports.
C1_ValidatesOnce ==
  [][ (~is_first) =>
        /\ ~is_first'
        /\ last' # last =>
             /\ last'.called /\ ~last'.first
             /\ last'.error \notin ValidationErrors ]_vars

\* A later call whose input first-call validation would have rejected.
C1_Witness ==
  /\ last.called /\ ~last.first /\ ~is_first
  /\ ValidateBlock(block, block_setting, last.x_rank, last.n_supports)
       \in ValidationErrors
  /\ last.error \notin ValidationErrors

\* C2: on a first call, a number of supports different from
\* dim**support_tensor_rank raises the support-length error and returns
\* no result, for every block (also without subchain, also with a
\* coefficient network); the right number never raises that error.
C2_SupportLength ==
  FirstCall =>
    /\ (~LastSupportsOk =>
          last.error = "ValueError_support_length" /\ ~last.returned /\ is_first)
    /\ (LastSupportsOk => last.error # "ValueError_support_length")

\* dim = 3, support_tensor_rank = 1, two supports, block without subchain.
C2_Witness ==
  /\ FirstCall /\ ~block.create_subchain
  /\ block.dim = 3 /\ block.support_tensor_rank = 1 /\ last.n_supports = 2
  /\ last.error = "ValueError_support_length"

\* C3: for every block without coefficient network, first-call validation
\* raises when the estimated output rank is > 0 and the last configured
\* activation is not identity.
C3_ActivationRule ==
  ( /\ FirstCall /\ ~block.has_coefficient_network
    /\ LastEstimatedRank > 0 /\ block_setting.activation # "identity" )
  => last.error \in ValidationErrors

\* C4: single-layer block, rank-0 input, estimated output rank > 0, bias
\* enabled: validation raises under (AH)W (ah_w true) and raises no bias
\* error under A(HW) (ah_w false).
C4_BiasRank0ToK ==
  ( /\ FirstCall /\ SingleLayerBlock /\ last.x_rank = 0
    /\ LastEstimatedRank > 0 /\ block_setting.bias )
  => /\ (block.ah_w => last.error \in ValidationErrors /\ ~last.returned)
     /\ (~block.ah_w => last.error \notin BiasErrors)

\* Rank 0 -> rank 2 with bias and ah_w, rejected for the bias alone.
C4_Witness ==
  /\ FirstCall /\ SingleLayerBlock /\ last.x_rank = 0
  /\ LastEstimatedRank = 2 /\ block_setting.bias /\ block.ah_w
  /\ LastSupportsOk /\ block_setting.activation = "identity"
  /\ last.error = "ValueError_bias_0_k"

\* C5: single-layer block, input rank > 0, estimated output rank 0, bias
\* enabled: validation raises under A(HW) (ah_w false) and raises no bias
\* error under (AH)W (ah_w true).
C5_BiasRankKTo0 ==
  ( /\ FirstCall /\ SingleLayerBlock /\ last.x_rank > 0
    /\ LastEstimatedRank = 0 /\ block_setting.bias )
  => /\ (~block.ah_w => last.error \in ValidationErrors /\ ~last.returned)
     /\ (block.ah_w => last.error \notin BiasErrors)

\* Rank 1 -> rank 0 with bias under A(HW), rejected for the bias alone.
C5_Witness ==
  /\ FirstCall /\ SingleLayerBlock /\ last.x_rank = 1
  /\ LastEstimatedRank = 0 /\ block_setting.bias /\ ~block.ah_w
  /\ LastSupportsOk
  /\ last.error = "ValueError_bias_k_0"

\* C6: single-layer block, input rank and estimated output rank both
\* nonzero: validation raises whenever bias is enabled, for both values of
\* ah_w; with bias disabled, an identity final activation and the right
\* number of supports it raises nothing.
C6_BiasRankKToL ==
  ( /\ FirstCall /\ SingleLayerBlock /\ last.x_rank # 0
    /\ LastEstimatedRank # 0 )
  => /\ (block_setting.bias => last.error \in ValidationErrors /\ ~last.returned)
     /\ ( ( /\ ~block_setting.bias /\ block_setting.activation = "identity"
             /\ LastSupportsOk )
           => last.error \notin ValidationErrors /\ ~is_first )

\* Rank 1 -> rank 2 with bias under (AH)W, rejected for the bias alone.
C6_Witness ==
  /\ FirstCall /\ SingleLayerBlock /\ last.x_rank = 1
  /\ LastEstimatedRank = 2 /\ block_setting.bias /\ block.ah_w
  /\ LastSupportsOk /\ block_setting.activation = "identity"
  /\ last.error = "ValueError_bias_k_l"

\* C7: the output rank validation checks is the input rank plus the rank
\* changes of the plan's operators in list order: convolution +1,
\* contraction -1, tensor_product +1, rotation 0.
C7_EstimatedRank ==
  (FirstCall /\ SingleLayerBlock) =>
    LastEstimatedRank =
      last.x_rank
        + CountOf("convolution", block_setting.propagations)
        - CountOf("contraction", block_setting.propagations)
        + CountOf("tensor_product", block_setting.propagations)
        + 0 * CountOf("rotation", block_setting.propagations)

\* The plan of the latest call is made of contraction steps only.
ContractionOnly ==
  /\ Len(block_setting.propagations) >= 1
  /\ \A i \in 1..Len(block_setting.propagations) :
        block_setting.propagations[i] = "contraction"

\* C8 (as stated): for a plan of contraction steps only the rank used by
\* validation is input_rank - n_contractions, and when that rank is <= 0
\* and the final activation is not identity the block is rejected (stated
\* for the single-layer block, to which validation applies every rule).
C8_ContractionOnlyRejected ==
  (FirstCall /\ ContractionOnly /\ SingleLayerBlock) =>
    /\ LastEstimatedRank = last.x_rank - Len(block_setting.propagations)
    /\ ( (LastEstimatedRank <= 0 /\ block_setting.activation # "identity")
          => last.error \in ValidationErrors )

\* C8 (amended): for a plan of contraction steps only the rank used by
\* validation is input_rank - n_contractions; the activation error is
\* raised only when that rank is > 0 and the final activation is not
\* identity, and with a rank <= 0, the right number of supports and no
\* bias a non-identity final activation is accepted.
C8_ContractionOnlyAccepted ==
  (FirstCall /\ ContractionOnly) =>
    /\ LastEstimatedRank = last.x_rank - Len(block_setting.propagations)
    /\ ( last.error = "ValueError_activation"
          => LastEstimatedRank > 0 /\ block_setting.activation # "identity" )
    /\ ( (LastEstimatedRank <= 0 /\ LastSupportsOk /\ ~block_setting.bias)
          => last.error \notin ValidationErrors /\ ~is_first )

\* Rank 1 input, one contraction, tanh on a single-layer block: accepted.
C8_Witness ==
  /\ FirstCall /\ ContractionOnly /\ SingleLayerBlock
  /\ last.x_rank = 1 /\ LastEstimatedRank = 0
  /\ block_setting.activation = "tanh" /\ ~block_setting.bias
  /\ LastSupportsOk
  /\ last.error \notin ValidationErrors /\ ~is_first

\* C9: rank-0 input and estimated output rank 0, with the right number of
\* supports: first-call validation raises nothing, for every combination
\* of bias, ah_w and final activation.
C9_Rank0ToRank0 ==
  ( /\ FirstCall /\ last.x_rank = 0 /\ LastEstimatedRank = 0
    /\ LastSupportsOk )
  => last.error \notin ValidationErrors /\ ~is_first

\* ['convolution', 'contraction'], dim 3, support rank 1, 3 supports, with
\* bias, (AH)W and a tanh final activation on a single-layer block.
C9_Witness ==
  /\ FirstCall /\ SingleLayerBlock /\ last.x_rank = 0
  /\ block_setting.propagations = <<"convolution", "contraction">>
  /\ block.dim = 3 /\ block.support_tensor_rank = 1 /\ last.n_supports = 3
  /\ block_setting.bias /\ block.ah_w /\ block_setting.activation = "tanh"
  /\ last.error \notin ValidationErrors /\ ~is_first

\* C10: a forward call on a symmetric block with boundary injection, given
\* a rank-0 input, both boundary fields and a plan that yields rank 2,
\* takes its steps in the order propagation, boundary injection,
\* (coefficient gating,) symmetrization, dropout, final activation.
C10_StepOrder ==
  ( /\ last.called /\ last.error \notin ValidationErrors
    /\ block.symmetric /\ block.has_neumann /\ ~block.create_neumann_ratio
    /\ last.n_args = 2 /\ last.x_rank = 0
    /\ Len(block.propagation_functions) = 2
    /\ \A i \in 1..2 : block.propagation_functions[i]
                           \in {"_convolution", "_tensor_product"} )
  => \E i, j, k, l \in DOMAIN last.steps :
        /\ i < j /\ j < k /\ k < l
        /\ last.steps[i] = "neumann_add"
        /\ last.steps[j] = "symmetrize"
        /\ last.steps[k] = "dropout"
        /\ last.steps[l] = "last_activation"
        /\ ( block.has_coefficient_network =>
               \E c \in DOMAIN last.steps :
                 /\ i < c /\ c < j
                 /\ last.steps[c] \in {"coefficient_of_x",
                                        "coefficient_of_contraction"} )


\* The latest forward call got past _validate_block.
ValidationPassed == last.called /\ last.error \notin ValidationErrors

\* Whether the field is symmetric in its two spatial axes after the
\* steps: symmetrization makes it so, dropout at inference, the
\* per-vertex coefficient, the elementwise activation and the zero
\* shortcut keep it so, any other step gives no such guarantee.
RECURSIVE SymmetricAfter(_)
SymmetricAfter(steps) ==
  IF steps = <<>> THEN FALSE
  ELSE LET h == steps[Len(steps)]
           before == SubSeq(steps, 1, Len(steps) - 1)
       IN  IF h = "symmetrize" THEN TRUE
           ELSE IF h \in { "dropout", "coefficient_of_x",
                           "coefficient_of_contraction", "last_activation",
                           "add_shortcut" }
                THEN SymmetricAfter(before)
           ELSE FALSE

\* C11: a forward call on a symmetric block without residual whose result
\* has rank 2 returns a value symmetric in its two spatial axes, with or
\* without boundary injection and coefficient network.
C11_SymmetricOutput ==
  ( /\ status = "built"
    /\ ValidationPassed
    /\ block.symmetric
    /\ ~block.residual
    /\ EstimatedOutputTensorRank(last.x_rank, block_setting.propagations) = 2
    /\ (block.has_neumann => last.n_args = 2) )
  => (last.returned /\ SymmetricAfter(last.steps))

\* Errors __init__ raises for a configuration it rejects.
ConfigurationErrors ==
  { "ValueError_len_support", "ValueError_zero_layer",
    "ValueError_no_propagations", "ValueError_propagation_method",
    "ValueError_input_names", "ValueError_neumann_bias" }

\* C15: constructing a block whose optional map has no 'propagations' key
\* raises a configuration error, so no block without a propagation plan is
\* ever built or receives a forward call.
C15_MissingPropagations ==
  (status # "unconstructed" /\ block_setting.propagations = Missing)
  => ( /\ status = "failed"
       /\ init_error \in ConfigurationErrors
       /\ ~last.called )

C15_Witness ==
  /\ status = "failed"
  /\ block_setting.propagations = Missing
  /\ init_error = "ValueError_no_propagations"

\* Some entry of optional.propagations names no operator.
HasUnknownPropagation ==
  /\ block_setting.propagations # Missing
  /\ \E i \in 1..Len(block_setting.propagations) :
        block_setting.propagations[i] \notin PropagationNames

\* C16: a propagation list with an unknown name makes construction fail
\* (no forward call ever runs on it); otherwise the built plan has the
\* length of the list and its i-th callable is the operator the i-th entry
\* names, and the plan of a built block never changes.
C16_PlanResolved ==
  /\ [](status # "unconstructed" =>
          IF HasUnknownPropagation
          THEN status = "failed" /\ ~last.called
          ELSE status = "built" =>
                 /\ Len(block.propagation_functions)
                      = Len(block_setting.propagations)
                 /\ \A i \in 1..Len(block_setting.propagations) :
                      block.propagation_functions[i]
                        = CreatePropagationFunction(block_setting.propagations[i]))
  /\ [][status = "built" =>
          block'.propagation_functions = block.propagation_functions]_vars

C16_Witness ==
  /\ status = "built"
  /\ block_setting.propagations = <<"convolution", "contraction">>
  /\ block.propagation_functions = <<"_convolution", "_contraction">>
  /\ last.called

\* Steps of the boundary injection.
NeumannSteps == { "neumann_linear", "neumann_add", "neumann_blend" }

\* C17: boundary mode is requested exactly when input_names is given:
\* construction then fails unless there are exactly 3 names and a built
\* block has has_neumann set; without input_names has_neumann is false, no
\* Neumann parameter exists and no forward call reads its extra arguments.
C17_BoundaryMode ==
  status # "unconstructed" =>
    /\ (block_setting.has_input_names /\ block_setting.n_input_names # 3)
         => status = "failed"
    /\ status = "built" =>
         /\ block.has_neumann = block_setting.has_input_names
         /\ ~block_setting.has_input_names =>
              /\ BlockAttributes(block) \cap {"neumann_linear", "neumann_ratio"} = {}
              /\ ~injected.called
              /\ last.called =>
                   /\ last.error # "IndexError"
                   /\ \A i \in 1..Len(last.steps) : last.steps[i] \notin NeumannSteps

C17_Witness ==
  /\ status = "failed"
  /\ block_setting.has_input_names
  /\ block_setting.n_input_names = 4
  /\ init_error = "ValueError_input_names"

\* C18: a block with boundary injection is never built with a biased
\* Neumann linear map: without a dedicated map a biased single layer makes
\* construction raise, with a dedicated map that error is never raised.
C18_NoBiasedNeumann ==
  (status # "unconstructed" /\ block_setting.has_input_names) =>
    /\ (status = "built" /\ ~block_setting.create_neumann_linear)
         => ~SubchainBias(block_setting)
    /\ ( /\ ~block_setting.create_neumann_linear
         /\ block_setting.create_subchain
         /\ block_setting.n_layer = 1
         /\ block_setting.bias )
         => ( /\ status = "failed"
              /\ block_setting.n_input_names = 3
                   => init_error = "ValueError_neumann_bias" )
    /\ block_setting.create_neumann_linear
         => init_error # "ValueError_neumann_bias"

C18_Witness ==
  /\ status = "failed"
  /\ init_error = "ValueError_neumann_bias"
  /\ block_setting.bias
  /\ ~block_setting.create_neumann_linear

\* C19: the injection step of a block built for boundary mode returns the
\* sum of the propagation result and the boundary term, or their doubled
\* sigmoid blend when a learnable ratio is configured, and completes in
\* both configurations.
C19_InjectionCompletes ==
  injected.called =>
    /\ injected.returned
    /\ injected.steps =
         <<"neumann_linear",
           IF block.create_neumann_ratio THEN "neumann_blend"
           ELSE "neumann_add">>

\* The steps the plan takes: each operator followed by the factor.
RECURSIVE PlanSteps(_)
PlanSteps(fns) ==
  IF fns = <<>> THEN <<>>
  ELSE <<Head(fns), "factor">> \o PlanSteps(Tail(fns))

\* The steps of a forward call up to the end of the propagation plan and
\* its weighting.
ExpectedPropagation ==
  (IF block.residual THEN <<"shortcut">> ELSE <<>>)
  \o (IF ~block.ah_w THEN <<"linear">> ELSE <<>>)
  \o PlanSteps(block.propagation_functions)
  \o (IF block.ah_w THEN <<"linear">> ELSE <<>>)

\* C20: the propagation step of a forward call applies the operators of
\* the plan in list order, each followed by one multiplication by factor,
\* and the weighting linear map once, before the plan when ah_w is false
\* and after it when ah_w is true.
C20_PropagationCore ==
  (status = "built" /\ ValidationPassed) =>
    /\ Len(last.steps) >= Len(ExpectedPropagation)
    /\ SubSeq(last.steps, 1, Len(ExpectedPropagation)) = ExpectedPropagation
    /\ CountOf("linear", last.steps) = 1
    /\ CountOf("factor", last.steps) = Len(block.propagation_functions)


\* The group sizes the shapes of the reduction's call describe.
PoolingSizes ==
  [j \in 1..Len(pooling.original_shapes.shapes) |->
     pooling.original_shapes.shapes[j][Len(pooling.original_shapes.shapes[j])]]

\* The j-th contiguous run of rows: the rows after the first
\* n_1 + ... + n_(j-1) ones, n_j of them.
RunRows(rows, sizes, j) ==
  [i \in 1..sizes[j] |-> rows[SumOf(SubSeq(sizes, 1, j - 1)) + i]]

\* v is the maximum / minimum / mean (as <<sum, count>>) of the run.
IsReductionOf(fn, v, run) ==
  IF fn = "max_pool"
  THEN (\E i \in 1..Len(run) : run[i] = v) /\ (\A i \in 1..Len(run) : run[i] <= v)
  ELSE IF fn = "min"
  THEN (\E i \in 1..Len(run) : run[i] = v) /\ (\A i \in 1..Len(run) : run[i] >= v)
  ELSE v = <<SumOf(run), Len(run)>>

\* The shapes are a list of k >= 1 non-empty groups of 1 or 2 entries
\* whose sizes sum to the length of the field along the grouped axis.
GroupsCoverField ==
  /\ ~pooling.original_shapes.is_dict
  /\ Len(pooling.original_shapes.shapes[1]) \in {1, 2}
  /\ \A j \in 1..Len(PoolingSizes) : PoolingSizes[j] >= 1
  /\ IF Len(pooling.original_shapes.shapes[1]) = 1
     THEN SumOf(PoolingSizes) = Len(pooling.x)
     ELSE \A a \in 1..Len(pooling.x) : SumOf(PoolingSizes) = Len(pooling.x[a])

\* C12: for k groups whose sizes sum to the length of the field along the
\* grouped axis, max_pool, mean and min return k entries in group order,
\* the j-th being the reduction of exactly the j-th contiguous run of rows.
C12_SegmentReduction ==
  (pooling.called /\ GroupsCoverField) =>
    /\ pooling.error = "none"
    /\ IF Len(pooling.original_shapes.shapes[1]) = 1
       THEN /\ Len(pooling.out) = Len(PoolingSizes)
            /\ \A j \in 1..Len(PoolingSizes) :
                 IsReductionOf(pooling.fn, pooling.out[j],
                               RunRows(pooling.x, PoolingSizes, j))
       ELSE /\ Len(pooling.out) = Len(pooling.x)
            /\ \A a \in 1..Len(pooling.x) :
                 /\ Len(pooling.out[a]) = Len(PoolingSizes)
                 /\ \A j \in 1..Len(PoolingSizes) :
                      IsReductionOf(pooling.fn, pooling.out[a][j],
                                    RunRows(pooling.x[a], PoolingSizes, j))

C12_Witness ==
  /\ pooling.called
  /\ GroupsCoverField
  /\ Len(pooling.original_shapes.shapes[1]) = 1
  /\ PoolingSizes = <<3, 2, 4>>
  /\ pooling.x = ExampleField
  /\ pooling.fn = "max_pool"
  /\ pooling.out = <<5, 7, 9>>


\* The latest atanh call raised the range error.
AtanhRaised == atanh_call.called /\ atanh_call.error = "ValueError"

\* C13 as stated: atanh raises the range error exactly when some element
\* lies outside the open interval (-1 - epsilon, 1 + epsilon).
C13_RangeErrorOpen ==
  atanh_call.called =>
    (AtanhRaised <=>
       \E i \in 1..Len(atanh_call.x0) :
          \/ atanh_call.x0[i] >= One + atanh_call.epsilon
          \/ atanh_call.x0[i] <= 0 - One - atanh_call.epsilon)

\* C13 amended: atanh raises the range error exactly when some element is
\* greater than 1 + epsilon or less than -1 - epsilon; the range test precedes
\* the clipping (a raising call leaves the tensor as it was), elements 1.0
\* and -1.0 do not raise and are clipped to 1 - epsilon and -1 + epsilon,
\* and 1.1 raises.
C13_RangeErrorClosed ==
  atanh_call.called =>
    /\ AtanhRaised <=>
         \E i \in 1..Len(atanh_call.x0) :
            \/ atanh_call.x0[i] > One + atanh_call.epsilon
            \/ atanh_call.x0[i] < 0 - One - atanh_call.epsilon
    /\ AtanhRaised => atanh_call.x = atanh_call.x0
    /\ (\E i \in 1..Len(atanh_call.x0) : atanh_call.x0[i] = One + One \div 10)
         => AtanhRaised
    /\ ~AtanhRaised =>
         \A i \in 1..Len(atanh_call.x0) :
            /\ atanh_call.x0[i] = One
                 => atanh_call.out[i] = <<"atanh", One - atanh_call.epsilon>>
            /\ atanh_call.x0[i] = 0 - One
                 => atanh_call.out[i] = <<"atanh", 0 - One + atanh_call.epsilon>>
            /\ atanh_call.x0[i] = One + atanh_call.epsilon
                 => atanh_call.out[i] = <<"atanh", One - atanh_call.epsilon>>

C13_Witness ==
  /\ atanh_call.called
  /\ atanh_call.epsilon = DefaultEpsilon
  /\ atanh_call.x0 = <<One, One + DefaultEpsilon>>
  /\ atanh_call.error = "none"
  /\ atanh_call.out = <<<<"atanh", One - 1>>, <<"atanh", One - 1>>>>


\* len(nodes) - 1 == len(activations) == len(dropouts) for list lengths l.
LayerCountsAgree(l) ==
  l.n_nodes - 1 = l.n_activations /\ l.n_activations = l.n_dropouts

\* C14 as stated: a BlockSetting constructed with nodes, activations and
\* dropouts that break the layer-count equality raises 'Block definition
\* invalid' before any coercion, one constructed with lists that satisfy
\* it never raises that error.
C14_PassedListsChecked ==
  setting.called =>
    IF LayerCountsAgree(setting.arguments)
    THEN setting.error # "ValueError_block_definition"
    ELSE setting.error = "ValueError_block_definition" /\ ~setting.coerced

\* C14 amended: the equality is checked on the lists in force after the
\* dynamic definition of layers (the lists passed, unless hidden_nodes and
\* hidden_layers are both given): 'Block definition invalid' is raised,
\* before any coercion, exactly when they break it.
C14_ListsInForceChecked ==
  setting.called =>
    /\ ~(setting.arguments.hidden_nodes_given
          /\ setting.arguments.hidden_layers # <<>>)
         => /\ setting.lists.n_nodes = setting.arguments.n_nodes
            /\ setting.lists.n_activations = setting.arguments.n_activations
            /\ setting.lists.n_dropouts = setting.arguments.n_dropouts
    /\ IF LayerCountsAgree(setting.lists)
       THEN setting.error # "ValueError_block_definition"
       ELSE setting.error = "ValueError_block_definition" /\ ~setting.coerced

C14_Witness ==
  /\ setting.called
  /\ setting.arguments.hidden_layers = <<>>
  /\ setting.arguments.n_nodes = 3
  /\ setting.arguments.n_activations = 1
  /\ setting.arguments.conversion = "TypeError"
  /\ setting.error = "ValueError_block_definition"


\* C21: when the coercion of a field fails during construction, whatever
\* the conversion function raised, the caller gets the TypeError that
\* names the field.
C21_CoercionTypeError ==
  ( /\ setting.called
    /\ LayerCountsAgree(setting.lists)
    /\ setting.arguments.conversion # "none" )
  => setting.error = "TypeError_names_field"

\* C23: a call of atanh, whether it returns or raises, leaves every
\* element of the caller's tensor as it was.
C23_AtanhPure ==
  atanh_call.called => atanh_call.x = atanh_call.x0

\* hidden_nodes and hidden_layers were both given to the BlockSetting.
BothHiddenGiven ==
  setting.arguments.hidden_nodes_given /\ setting.arguments.hidden_layers # <<>>

\* C30: with hidden_nodes and hidden_layers both given the lists in force
\* have hidden_layers + 2 nodes, hidden_layers + 1 activations and
\* hidden_layers + 1 dropouts and pass the layer-count check for every
\* hidden_layers >= 1, whatever lists were passed; with hidden_layers = 0
\* there are 2 dropouts against 1 activation and construction fails with
\* 'Block definition invalid'.
C30_DynamicLayers ==
  (setting.called /\ BothHiddenGiven) =>
    LET hidden_layers == setting.arguments.hidden_layers[1]
    IN  /\ setting.lists.n_nodes = hidden_layers + 2
        /\ setting.lists.n_activations = hidden_layers + 1
        /\ hidden_layers >= 1 =>
             /\ setting.lists.n_dropouts = hidden_layers + 1
             /\ setting.error # "ValueError_block_definition"
        /\ hidden_layers = 0 =>
             /\ setting.lists.n_dropouts = 2
             /\ setting.error = "ValueError_block_definition"

C30_Witness ==
  /\ setting.called
  /\ BothHiddenGiven
  /\ setting.arguments.hidden_layers = <<0>>
  /\ LayerCountsAgree(setting.arguments)
  /\ setting.error = "ValueError_block_definition"


\* C25: a forward call whose validation raises was a validating call,
\* leaves is_first True and has already set x_tensor_rank to the rank of
\* its input; while is_first is True every forward call validates, and a
\* call repeating the rank and support count of a rejected call is
\* rejected with the same error.
C25_FailedValidation ==
  /\ [][ (last' # last /\ last'.error \in ValidationErrors) =>
           /\ is_first /\ is_first'
           /\ last'.first
           /\ x_tensor_rank' = <<last'.x_rank>> ]_vars
  /\ [][ (is_first /\ last' # last) => last'.first ]_vars
  /\ [][ ( /\ last.called /\ last.error \in ValidationErrors
           /\ last' # last
           /\ last'.x_rank = last.x_rank
           /\ last'.n_supports = last.n_supports )
         => last'.error = last.error ]_vars

C25_Witness ==
  /\ last.called /\ last.first
  /\ last.error = "ValueError_support_length"
  /\ last.n_args = 2
  /\ is_first
  /\ x_tensor_rank = <<last.x_rank>>

\* C26: a built block has a coefficient network exactly when it has a
\* subchain and at least 2 layers; a subchain with 0 layers fails
\* construction; with a coefficient network the main linear map has no
\* bias, last_activation is the identity whatever activation is
\* configured, and first-call validation checks the support length only.
C26_CoefficientNetwork ==
  /\ ( /\ status # "unconstructed"
       /\ block_setting.create_subchain
       /\ block_setting.n_layer = 0 ) => status = "failed"
  /\ status = "built" =>
       /\ block.has_coefficient_network
            <=> (block_setting.create_subchain /\ block_setting.n_layer >= 2)
       /\ block.has_coefficient_network =>
            /\ ~SubchainBias(block_setting)
            /\ block.last_activation = "identity"
            /\ FirstCall =>
                 IF last.n_supports = Pow(block.dim, block.support_tensor_rank)
                 THEN last.error \notin ValidationErrors
                 ELSE last.error = "ValueError_support_length"

C26_Witness ==
  /\ status = "built"
  /\ block.has_coefficient_network
  /\ block_setting.n_layer = 3
  /\ block_setting.bias
  /\ block_setting.activation = "tanh"
  /\ FirstCall
  /\ last.x_rank = 1
  /\ last.error \notin ValidationErrors

\* C27: on a call after the first successful one the coefficient gate is
\* computed from the raw input iff the first call's input had rank 0, and
\* from its contraction otherwise, whatever the rank of the current input.
C27_GateFollowsFirstRank ==
  ( /\ status = "built"
    /\ block.has_coefficient_network
    /\ last.called /\ ~last.first
    /\ (block.has_neumann => last.n_args = 2) )
  => /\ x_tensor_rank[1] = 0
          <=> (\E i \in 1..Len(last.steps) : last.steps[i] = "coefficient_of_x")
     /\ x_tensor_rank[1] # 0
          <=> (\E i \in 1..Len(last.steps) :
                 last.steps[i] = "coefficient_of_contraction")

\* The validation error of the latest call, "none" when it raised none.
LastValidationError ==
  IF last.error \in ValidationErrors THEN last.error ELSE "none"

\* The propagation lists that are reorderings of the block's one.
Reorderings(str_propagations) ==
  { [i \in 1..Len(str_propagations) |-> str_propagations[f[i]]] :
      f \in Permutations(1..Len(str_propagations)) }

\* C28: first-call validation gives the same outcome for every reordering
\* of the propagation list: it depends on the input rank and on how many
\* entries are contractions, never on their order.
C28_OrderInsensitive ==
  (status = "built" /\ FirstCall) =>
    \A q \in Reorderings(block_setting.propagations) :
       LET reordered == [block_setting EXCEPT !.propagations = q]
       IN  ValidateBlock(BlockOf(reordered), reordered,
                         last.x_rank, last.n_supports) = LastValidationError

C28_Witness ==
  /\ status = "built"
  /\ FirstCall
  /\ block_setting.propagations = <<"contraction", "convolution">>
  /\ block_setting.activation = "tanh"
  /\ ~block.has_coefficient_network /\ block.create_subchain
  /\ last.x_rank = 0
  /\ LastValidationError = "none"


\* C29: the dedicated Neumann linear map of a block built with
\* create_neumann_linear has the input width nodes[0] and the output
\* width nodes[-1] of the main linear map, for every pair of widths.
C29_NeumannWidths ==
  ( /\ status = "built"
    /\ block.has_neumann
    /\ block.create_neumann_linear )
  => /\ block.neumann_linear[1].in_features = block_setting.nodes_first
     /\ block.neumann_linear[1].out_features = block_setting.nodes_last


\* C22: a mapping passed as the group shapes makes max_pool, mean and min
\* (through split) and the forward call of a DeepSets block without
\* dict_key fail with the usage error of split and produce no result.
C22_DictShapesRejected ==
  ( /\ pooling.called
    /\ pooling.original_shapes.is_dict
    /\ (pooling.fn = "deepsets" => ~pooling.dict_key_given) )
  => (pooling.error = "ValueError_dict" /\ pooling.out = <<>>)

\* A thread whose call read is_first as True and ran _validate_block.
Validated(t) ==
  calls[t].first /\ calls[t].pc \in {"estimate", "bias", "clear", "body",
                                     "returned", "raised"}

\* C24: in every interleaving of forward calls on one block, is_first only
\* moves from True to False and never back, and a call whose own validation
\* raised ends there: it runs no step of the body and returns no result.
C24_FlagOnlyClears ==
  [][ /\ is_first' => is_first
      /\ \A t \in Threads :
           calls'[t].validation_error # "none"
             => /\ calls'[t].pc = "raised"
                /\ calls'[t].steps = <<>>
                /\ ~calls'[t].returned ]_vars

\* Both threads read is_first as True on the fresh block and both ran
\* _validate_block; one validation raised, the other call cleared the flag.
C24_Witness ==
  /\ \A t \in Threads : Validated(t)
  /\ \E t \in Threads : calls[t].validation_error # "none"
  /\ \E t \in Threads : calls[t].validation_error = "none"
                        /\ calls[t].pc \in {"body", "returned", "raised"}
  /\ ~is_first

====
